---- MODULE Spec2Model ----
(***************************************************************************)
(* Model of src/src/main.cpp: the verifier cache (VerifierCache), its disk *)
(* codec (loadCacheFromDisk / saveCacheToDisk) and the fetch protocol of   *)
(* VerifierInfoLayer (init, fetchAREDLData and its response callback).     *)
(*                                                                         *)
(* A std::string is a sequence of one-character strings, so that the text  *)
(* file written by saveCacheToDisk is a sequence of characters that        *)
(* loadCacheFromDisk really has to parse.                                  *)
(***************************************************************************)
EXTENDS Integers, Sequences, FiniteSets, TLC

(***************************************************************************)
(* Bounds of the model.                                                    *)
(***************************************************************************)
\* longest verifier name / video URL drawn for an arbitrary cache entry
MaxStrLen == 1
\* longest corrupt line drawn for a cache file
MaxLineLen == 6
\* the clock runs from 0 to MaxClock ticks
MaxClock == 1
\* clock ticks per second: system_clock is finer than the seconds persisted
TicksPerSecond == 2

(***************************************************************************)
(* Characters and strings.                                                 *)
(***************************************************************************)
CACHE_ENTRY_SEPARATOR == "\t"
LF == "\n"
DigitChars == <<"0", "1", "2", "3", "4", "5", "6", "7", "8", "9">>
Digits == {DigitChars[i] : i \in 1..10}
DigitVal(c) == (CHOOSE i \in 1..10 : DigitChars[i] = c) - 1
\* std::isspace in the "C" locale
Whitespace == {" ", "\t", "\n", "\r", "\f"}

EmptyStr == << >>
\* line 354: the verifier name when the body names none
UnknownMutantEmpty ==
    << >>

Unknown == <<"U", "n", "k", "n", "o", "w", "n">>

\* all strings over alphabet A of length at most n
StrsUpTo(A, n) == UNION {[1..k -> A] : k \in 0..n}

\* operator<< of an integer: decimal digits, '-' first when negative
RECURSIVE NatToDecimal(_)
NatToDecimal(n) ==
    IF n < 10 THEN <<DigitChars[n + 1]>>
    ELSE NatToDecimal(n \div 10) \o <<DigitChars[(n % 10) + 1]>>

ToDecimal(n) == IF n < 0 THEN <<"-">> \o NatToDecimal(-n) ELSE NatToDecimal(n)

\* the longest prefix of s made of characters of set A
RECURSIVE PrefixIn(_, _)
PrefixIn(s, A) ==
    IF s = << >> \/ Head(s) \notin A THEN << >>
    ELSE <<Head(s)>> \o PrefixIn(Tail(s), A)

RECURSIVE DigitsValue(_, _)
DigitsValue(ds, acc) ==
    IF ds = << >> THEN acc
    ELSE DigitsValue(Tail(ds), acc * 10 + DigitVal(Head(ds)))

Drop(s, n) == SubSeq(s, n + 1, Len(s))

(***************************************************************************)
(* std::stoi / std::stoll: skip leading whitespace, take an optional sign, *)
(* then the longest run of digits; what follows the digits is ignored.     *)
(* No digit: std::invalid_argument.  (Every number of the model has fewer  *)
(* than ten digits, so std::out_of_range does not arise.)                  *)
(***************************************************************************)
stoi(s) ==
    LET t == Drop(s, Len(PrefixIn(s, Whitespace)))
        signed == t /= << >> /\ Head(t) \in {"+", "-"}
        u == IF signed THEN Tail(t) ELSE t
        ds == PrefixIn(u, Digits)
    IN  IF ds = << >> THEN [ok |-> FALSE, val |-> 0]
        ELSE [ok |-> TRUE,
              val |-> IF signed /\ Head(t) = "-" THEN -DigitsValue(ds, 0)
                      ELSE DigitsValue(ds, 0)]

stoll(s) == stoi(s)

(***************************************************************************)
(* geode::utils::string::split: the pieces between separators, empty       *)
(* pieces kept; the empty string has no pieces.                            *)
(***************************************************************************)
RECURSIVE SplitKeep(_, _, _)
SplitKeep(s, sep, cur) ==
    IF s = << >> THEN <<cur>>
    ELSE IF Head(s) = sep THEN <<cur>> \o SplitKeep(Tail(s), sep, << >>)
    ELSE SplitKeep(Tail(s), sep, Append(cur, Head(s)))

splitMutantDropsEmpty(str, sep) ==
    SelectSeq(SplitKeep(str, sep, << >>), LAMBDA piece : piece /= << >>)

split(str, sep) ==
    IF str = << >> THEN << >> ELSE SplitKeep(str, sep, << >>)

\* the std::getline loop: the lines of a file; a final line needs no '\n'
getlines(file) ==
    LET pieces == SplitKeep(file, LF, << >>)
    IN  IF pieces[Len(pieces)] = << >> THEN SubSeq(pieces, 1, Len(pieces) - 1)
        ELSE pieces

(***************************************************************************)
(* CacheEntry and VerifierCache.  m_cache is a finite map: its DOMAIN is   *)
(* the set of keys present.  std::optional is a sequence of length 0 or 1. *)
(***************************************************************************)
CacheEntry(verifier, video, time) ==
    [verifierName |-> verifier, videoUrl |-> video, fetchedAt |-> time]

\* CacheEntry() = default
DefaultEntry == CacheEntry(EmptyStr, EmptyStr, 0)

EmptyCache == [k \in {} |-> DefaultEntry]

nullopt == << >>
Some(e) == <<e>>

getMutantDropsEmpty(cache, levelID) ==
    IF levelID \in DOMAIN cache /\ cache[levelID].verifierName /= EmptyStr
    THEN Some(cache[levelID]) ELSE nullopt

get(cache, levelID) ==
    IF levelID \in DOMAIN cache THEN Some(cache[levelID]) ELSE nullopt

\* m_cache[levelID]: operator[] default-constructs the entry of a new key
indexOrInsert(cache, levelID) ==
    [k \in DOMAIN cache \cup {levelID} |->
        IF k \in DOMAIN cache THEN cache[k] ELSE DefaultEntry]

\* the move assignment of CacheEntry assigns the members in declaration order
FieldNames == <<"verifierName", "videoUrl", "fetchedAt">>
assignField(cache, levelID, i, entry) ==
    [cache EXCEPT ![levelID][FieldNames[i]] = entry[FieldNames[i]]]

\* put, run to its end: m_cache[levelID] = std::move(entry)
put(cache, levelID, entry) ==
    assignField(assignField(assignField(indexOrInsert(cache, levelID),
        levelID, 1, entry), levelID, 2, entry), levelID, 3, entry)

contains(cache, levelID) == levelID \in DOMAIN cache

getAll(cache) == cache

(***************************************************************************)
(* Disk codec.  A file is missing (NoFile) or holds characters.            *)
(***************************************************************************)
NoFile == [exists |-> FALSE, bytes |-> << >>]
File(bytes) == [exists |-> TRUE, bytes |-> bytes]

\* duration_cast<seconds>(fetchedAt.time_since_epoch()).count()
EpochSeconds(time) == time \div TicksPerSecond
\* system_clock::time_point(std::chrono::seconds(epoch))
TimePoint(epoch) == epoch * TicksPerSecond

\* one record as saveCacheToDisk writes it
RecordLine(id, entry) ==
    ToDecimal(id) \o <<CACHE_ENTRY_SEPARATOR>>
        \o ToDecimal(EpochSeconds(entry.fetchedAt)) \o <<CACHE_ENTRY_SEPARATOR>>
        \o entry.verifierName \o <<CACHE_ENTRY_SEPARATOR>>
        \o entry.videoUrl \o <<LF>>

\* the iteration orders of an unordered_map with key set S
Orders(S) ==
    {o \in [1..Cardinality(S) -> S] : \A i, j \in 1..Cardinality(S) : i /= j => o[i] /= o[j]}

RECURSIVE WriteRecords(_, _)
WriteRecords(cache, order) ==
    IF order = << >> THEN << >>
    ELSE RecordLine(Head(order), cache[Head(order)]) \o WriteRecords(cache, Tail(order))

\* the file saveCacheToDisk leaves: opened with trunc, then one line per entry
\* of the snapshot, in the map's iteration order; a file that cannot be opened
\* is left as it was
saveCacheToDisk(cache, file, order, canOpen) ==
    IF ~canOpen THEN file ELSE File(WriteRecords(getAll(cache), order))

\* lines 116-125: what the record loop makes of one line; ok is FALSE for a
\* line it passes over (empty, fewer than four parts, stoi or stoll throwing)
parseLine(line) ==
    LET skip == [ok |-> FALSE, id |-> 0, entry |-> DefaultEntry]
    IN  IF line = << >> THEN skip
        ELSE LET parts == split(line, CACHE_ENTRY_SEPARATOR)
             IN  IF Len(parts) < 4 THEN skip
                 ELSE LET id == stoi(parts[1])
                          epoch == stoll(parts[2])
                      IN  IF ~id.ok \/ ~epoch.ok THEN skip
                          ELSE [ok |-> TRUE, id |-> id.val,
                                entry |-> CacheEntry(parts[3], parts[4],
                                                     TimePoint(epoch.val))]

\* the body of the record loop for one line
loadLine(cache, line) ==
    LET record == parseLine(line)
    IN  IF record.ok THEN put(cache, record.id, record.entry) ELSE cache

\* the record loop, lines 115-136
RECURSIVE loadLines(_, _)
loadLines(cache, lines) ==
    IF lines = << >> THEN cache
    ELSE loadLines(loadLine(cache, Head(lines)), Tail(lines))

\* the cache after loadCacheFromDisk: a missing file changes nothing
loadCacheFromDisk(cache, file) ==
    IF ~file.exists THEN cache ELSE loadLines(cache, getlines(file.bytes))

(***************************************************************************)
(* The response body as matjson sees it.  A JSON value that is missing or  *)
(* of another type than the accessor asks for is NotThere: asString() and  *)
(* asArray() then fail and unwrapOr supplies the default.                  *)
(***************************************************************************)
NotThere == [type |-> "null", val |-> << >>]
JString(s) == [type |-> "string", val |-> s]
JArray(items) == [type |-> "array", val |-> items]
JObject(fields) == [type |-> "object", val |-> fields]
JTrue == [type |-> "bool", val |-> << >>]

\* asString().unwrapOr(default)
AsStringOr(v, default) == IF v.type = "string" THEN v.val ELSE default
\* asArray().unwrapOr({})
AsArrayOr(v, default) == IF v.type = "array" THEN v.val ELSE default

User(globalName, name, username) ==
    JObject([global_name |-> globalName, name |-> name, username |-> username])

Verification(url, user) == [video_url |-> url, submitted_by |-> user]

LevelData(verifications) == [verifications |-> verifications]

\* lines 354-371: the verifier name and video URL taken from a parsed body
ExtractVerifier(levelData) ==
    LET verifications == AsArrayOr(levelData.verifications, << >>)
    IN  IF verifications = << >>
        THEN [verifierName |-> Unknown, videoUrl |-> EmptyStr]
        ELSE LET firstVerif == verifications[1]
                 user == firstVerif.submitted_by
             IN  [verifierName |->
                      IF user.type /= "object" THEN Unknown
                      ELSE AsStringOr(user.val.global_name,
                                      AsStringOr(user.val.name, Unknown)),
                  videoUrl |-> AsStringOr(firstVerif.video_url, EmptyStr)]

(***************************************************************************)
(* The program state.                                                      *)
(*   m_cache    VerifierCache::m_cache of the singleton                    *)
(*   disk       the file verifier_cache.txt                                *)
(*   layers     the VerifierInfoLayer objects: their Fields and widgets    *)
(*   transfers  the web requests in flight, each owned by the m_webTask    *)
(*              handle of the layer that spawned it                        *)
(*   now        system_clock::now(), in ticks                              *)
(*   current    the layer created last, the one on screen                  *)
(*   lastEvent  the handler that ran last and the path it took             *)
(*   m_mutex, threads, written   the lock of VerifierCache and the threads *)
(*              calling it (specification SpecCache)                       *)
(*   snapshot, phase, corrupt  the snapshot saved, the stage of a save /   *)
(*              load cycle and the corrupt line put into the file          *)
(*              (specification SpecCodec)                                  *)
(*   response, settings   the body of the response on its way to the       *)
(*              callback and the settings of the mod (specification        *)
(*              SpecFetch)                                                 *)
(*   callbacks  how far the callback of each layer's request has run       *)
(*              through put and saveCacheToDisk (specification SpecSave)   *)
(***************************************************************************)
VARIABLES m_cache, disk, layers, transfers, now, current, lastEvent,
          m_mutex, threads, written, snapshot, phase, corrupt,
          response, settings, callbacks

lockVars == <<m_mutex, threads, written>>
codecVars == <<snapshot, phase, corrupt>>
fetchVars == <<response, settings>>
saveVars == <<callbacks>>
vars == <<m_cache, disk, layers, transfers, now, current, lastEvent,
          m_mutex, threads, written, snapshot, phase, corrupt,
          response, settings, callbacks>>

LayerIds == {"L1", "L2"}
NoLayer == "NoLayer"
\* GJGameLevel::m_levelID: 0 is a level without an online id
\* GJGameLevel::m_demonDifficulty: 5 is Insane Demon, 6 is Extreme Demon
ExtremeDemon == 6
InsaneDemon == ExtremeDemon - 1
GJGameLevel(id, difficulty) == [m_levelID |-> id, m_demonDifficulty |-> difficulty]
\* the levels opened: one without an id, one Insane Demon, two Extreme Demons
\* (level 1 is met with both ratings)
Levels ==
    { GJGameLevel(0, ExtremeDemon), GJGameLevel(1, InsaneDemon),
      GJGameLevel(1, ExtremeDemon), GJGameLevel(2, ExtremeDemon) }
NoLevel == GJGameLevel(0, 0)

\* a pointer is a sequence of length 0 (nullptr) or 1 (the object)
nullptr == << >>
Label(text, visible) == [text |-> text, visible |-> visible]
Button(visible) == [visible |-> visible]

\* a layer that does not exist, and the Fields() of one just constructed
NewLayer(exists, level) ==
    [exists |-> exists, m_level |-> level, m_cacheInitialized |-> FALSE,
     m_label |-> nullptr, m_youtubeBtn |-> nullptr, m_videoUrl |-> EmptyStr]

\* the response bodies the server sends
NameA == <<"A">>
NameB == <<"B">>
Url1 == <<"u">>
Bodies ==
    { LevelData(NotThere),
      LevelData(JArray(<<Verification(JString(Url1),
                                      User(JString(NameA), JString(NameB), NotThere))>>)) }

HttpCodes == {404, 500}

Event(op, layer, levelID, path) ==
    [op |-> op, layer |-> layer, levelID |-> levelID, path |-> path]

\* no handler of the layer ran in the last step
NoEvent == Event("none", NoLayer, 0, "none")

\* no layer exists, no request is in flight
NoLayers ==
    /\ layers = [L \in LayerIds |-> NewLayer(FALSE, NoLevel)]
    /\ transfers = {}
    /\ now = 0
    /\ current = NoLayer
    /\ lastEvent = NoEvent

ProgInit ==
    /\ m_cache = EmptyCache
    /\ disk = NoFile
    /\ NoLayers

ThreadIds == {"T1", "T2", "T3"}
NoThread == "none"
Thread(pc, levelID, entry, got, all) ==
    [pc |-> pc, levelID |-> levelID, entry |-> entry, got |-> got, all |-> all]
IdleThread == Thread("idle", 0, DefaultEntry, nullopt, EmptyCache)

LockIdle ==
    /\ m_mutex = [writer |-> NoThread, readers |-> {}]
    /\ threads = [t \in ThreadIds |-> IdleThread]
    /\ written = [map |-> EmptyCache, count |-> 0]

NoCorruption == [present |-> FALSE, line |-> << >>, at |-> 0]

CodecIdle ==
    /\ snapshot = EmptyCache
    /\ phase = "idle"
    /\ corrupt = NoCorruption

\* the settings of the mod as installed: nothing is switched off
Settings(disableCache) == [disable_cache |-> disableCache]
DefaultSettings == Settings(FALSE)

\* no response is on its way
NoResponse == [verifications |-> NotThere]

FetchIdle ==
    /\ response = NoResponse
    /\ settings = DefaultSettings

\* a callback: where it stands, the snapshot it took, the keys left to write
Callback(pc, cache, left) == [pc |-> pc, cache |-> cache, left |-> left]
NoCallback == Callback("none", EmptyCache, << >>)

SaveIdle == callbacks = [L \in LayerIds |-> NoCallback]

(***************************************************************************)
(* VerifierInfoLayer.                                                      *)
(***************************************************************************)
\* initializeCacheIfNeeded: the cache after it
initializeCacheIfNeeded(layer, cache, file) ==
    IF ~layer.m_cacheInitialized THEN loadCacheFromDisk(cache, file) ELSE cache

\* createUIElements: the ". . ." label, and the button unless its sprite fails
createUIElements(layer, iconLoads) ==
    [layer EXCEPT !.m_label = <<Label(<<". . .">>, TRUE)>>,
                  !.m_youtubeBtn = IF iconLoads THEN <<Button(FALSE)>> ELSE nullptr]

\* updateUI: the layer after it
updateUI(layer, verifier, video, showYoutube) ==
    IF layer.m_label = nullptr THEN layer
    ELSE [layer EXCEPT
            !.m_label = <<Label(<<"Verified by: ">> \o verifier, TRUE)>>,
            !.m_videoUrl = video,
            !.m_youtubeBtn =
                IF layer.m_youtubeBtn = nullptr THEN nullptr
                ELSE <<Button(video /= EmptyStr /\ showYoutube)>>]

setString(layer, text) ==
    IF layer.m_label = nullptr THEN layer
    ELSE [layer EXCEPT !.m_label[1].text = text]

\* m_webTask.spawn: the handle drops the request it held and holds the new one
spawn(reqs, L, levelID) ==
    {t \in reqs : t.layer /= L} \cup {[layer |-> L, levelID |-> levelID]}

\* ~TaskHolder: a destroyed handle cancels the request it holds
cancelMutantLeaks(reqs, L) ==
    reqs

cancel(reqs, L) ==
    {t \in reqs : t.layer /= L}

\* line 331: the callback captures this, the layer that spawned the request
callbackLayerMutantOnScreen(t, onScreen) ==
    IF onScreen /= NoLayer THEN onScreen ELSE t.layer

callbackLayer(t, onScreen) ==
    t.layer

\* line 255: the level id init accepts
validLevelIDMutantZero(levelID) ==
    levelID >= 0

validLevelID(levelID) ==
    levelID > 0

\* line 267: the difficulty that makes a level eligible for a fetch
eligibleMutantAnyDemon(level) ==
    level.m_demonDifficulty >= InsaneDemon

eligible(level) ==
    level.m_demonDifficulty = ExtremeDemon

\* line 261: the lookup found an entry
isCachedMutantNamedOnly(cachedEntry) ==
    cachedEntry /= nullopt /\ cachedEntry[1].verifierName /= EmptyStr

isCached(cachedEntry) ==
    cachedEntry /= nullopt

(***************************************************************************)
(* LevelInfoLayer::create: a new layer, whose Fields are fresh, runs init  *)
(* once (lines 242-277).  The settings are read when init runs.  The       *)
(* sprite frame of the button is a resource of the game and loads.         *)
(***************************************************************************)
init(L) ==
    /\ ~layers[L].exists
    /\ \E level \in Levels, showLabel \in BOOLEAN, showYoutube \in BOOLEAN :
         LET fresh == NewLayer(TRUE, level)
             levelID == level.m_levelID
             loaded == initializeCacheIfNeeded(fresh, m_cache, disk)
             built == createUIElements([fresh EXCEPT !.m_cacheInitialized = TRUE], TRUE)
             cachedEntry == get(loaded, levelID)
         IN  IF ~showLabel
             THEN /\ layers' = [layers EXCEPT ![L] = fresh]
                  /\ lastEvent' = Event("init", L, levelID, "hidden")
                  /\ UNCHANGED <<m_cache, transfers>>
             ELSE IF ~validLevelID(levelID)
             THEN /\ layers' = [layers EXCEPT ![L] = built]
                  /\ m_cache' = loaded
                  /\ lastEvent' = Event("init", L, levelID, "invalidId")
                  /\ UNCHANGED transfers
             ELSE IF isCached(cachedEntry)
             THEN /\ layers' = [layers EXCEPT ![L] =
                          updateUI(built, cachedEntry[1].verifierName,
                                   cachedEntry[1].videoUrl, showYoutube)]
                  /\ m_cache' = loaded
                  /\ lastEvent' = Event("init", L, levelID, "cacheHit")
                  /\ UNCHANGED transfers
             ELSE IF eligible(level)
             THEN /\ layers' = [layers EXCEPT ![L] = built]
                  /\ m_cache' = loaded
                  /\ transfers' = spawn(transfers, L, levelID)
                  /\ lastEvent' = Event("init", L, levelID, "fetch")
             ELSE /\ layers' = [layers EXCEPT ![L] = built]
                  /\ m_cache' = loaded
                  /\ lastEvent' = Event("init", L, levelID, "notEligible")
                  /\ UNCHANGED transfers
    /\ current' = L
    /\ UNCHANGED <<disk, now>>

(***************************************************************************)
(* The callback of fetchAREDLData (lines 331-388), run on the main thread  *)
(* when the request of transfer t completes.                               *)
(***************************************************************************)
\* the request of transfer t is complete: the handle holds it no more
CompletedMutantStays(t) ==
    UNCHANGED <<transfers, now, current>>

Completed(t) ==
    /\ transfers' = transfers \ {t}
    /\ UNCHANGED <<now, current>>

ResponseHttpError(t) ==
    \E code \in HttpCodes :
        /\ Completed(t)
        /\ layers' = [layers EXCEPT ![callbackLayer(t, current)] =
                setString(@, IF code = 404 THEN <<"Not on AREDL">>
                             ELSE <<"Error fetching">>)]
        /\ lastEvent' = Event("response", t.layer, t.levelID, "httpError")
        /\ UNCHANGED <<m_cache, disk>>

ResponseParseError(t) ==
    /\ Completed(t)
    /\ layers' = [layers EXCEPT ![callbackLayer(t, current)] =
            setString(@, <<"Parse error">>)]
    /\ lastEvent' = Event("response", t.layer, t.levelID, "parseError")
    /\ UNCHANGED <<m_cache, disk>>

\* lines 353-380: the callback on a body that parsed
ResponseOkWith(t, levelData) ==
    \E showYoutube \in BOOLEAN, canOpen \in BOOLEAN :
        LET found == ExtractVerifier(levelData)
            stored == put(m_cache, t.levelID,
                          CacheEntry(found.verifierName, found.videoUrl, now))
        IN  /\ Completed(t)
            /\ layers' = [layers EXCEPT ![callbackLayer(t, current)] =
                    updateUI(@, found.verifierName, found.videoUrl, showYoutube)]
            /\ m_cache' = stored
            /\ \E order \in Orders(DOMAIN stored) :
                   disk' = saveCacheToDisk(stored, disk, order, canOpen)
            /\ lastEvent' = Event("response", t.layer, t.levelID, "ok")

ResponseOk(t) ==
    \E levelData \in Bodies : ResponseOkWith(t, levelData)

\* the layer leaves the scene: its Fields, and with them m_webTask, are destroyed
Destroy(L) ==
    /\ layers[L].exists
    /\ layers' = [layers EXCEPT ![L] = NewLayer(FALSE, NoLevel)]
    /\ transfers' = cancel(transfers, L)
    /\ current' = IF current = L THEN NoLayer ELSE current
    /\ lastEvent' = NoEvent
    /\ UNCHANGED <<m_cache, disk, now>>

Tick ==
    /\ now < MaxClock
    /\ now' = now + 1
    /\ lastEvent' = NoEvent
    /\ UNCHANGED <<m_cache, disk, layers, transfers, current>>

\* the process ends and starts again: the singleton is empty, the file stays
Restart ==
    /\ m_cache' = EmptyCache
    /\ layers' = [L \in LayerIds |-> NewLayer(FALSE, NoLevel)]
    /\ transfers' = {}
    /\ current' = NoLayer
    /\ lastEvent' = NoEvent
    /\ UNCHANGED <<disk, now>>

Init == ProgInit /\ LockIdle /\ CodecIdle /\ FetchIdle /\ SaveIdle

Next ==
    \/ \E L \in LayerIds : init(L) /\ UNCHANGED <<lockVars, codecVars, fetchVars, saveVars>>
    \/ \E t \in transfers : ResponseHttpError(t) /\ UNCHANGED <<lockVars, codecVars, fetchVars, saveVars>>
    \/ \E t \in transfers : ResponseParseError(t) /\ UNCHANGED <<lockVars, codecVars, fetchVars, saveVars>>
    \/ \E t \in transfers : ResponseOk(t) /\ UNCHANGED <<lockVars, codecVars, fetchVars, saveVars>>
    \/ \E L \in LayerIds : Destroy(L) /\ UNCHANGED <<lockVars, codecVars, fetchVars, saveVars>>
    \/ Tick /\ UNCHANGED <<lockVars, codecVars, fetchVars, saveVars>>
    \/ Restart /\ UNCHANGED <<lockVars, codecVars, fetchVars, saveVars>>

Spec == Init /\ [][Next]_vars

(***************************************************************************)
(* VerifierCache under concurrent callers (specification SpecCache): each  *)
(* thread calls put, get or getAll; a call is the steps of its body, the   *)
(* std::unique_lock / std::shared_lock on m_mutex included.                *)
(*   written   the puts that have returned: the entry last put under each  *)
(*             key, and how many puts returned                             *)
(***************************************************************************)
\* the puts one run of SpecCache makes
MaxPuts == 3
CacheKeys == {1, 2}
\* the entries put: a negative entry among them
NegativeEntry == CacheEntry(EmptyStr, EmptyStr, 0)
PutEntries == {NegativeEntry, CacheEntry(NameA, Url1, 1)}

\* std::unique_lock lock(m_mutex) can be taken
canLockUnique(mutex) == mutex.writer = NoThread /\ mutex.readers = {}

canLockSharedMutantNoLock(mutex) ==
    TRUE

\* std::shared_lock lock(m_mutex) can be taken
canLockShared(mutex) ==
    mutex.writer = NoThread

SetThread(t, th) == threads' = [threads EXCEPT ![t] = th]

\* put(levelID, entry), lines 85-88
PutLock(t) ==
    /\ threads[t].pc = "idle"
    /\ written.count < MaxPuts
    /\ canLockUnique(m_mutex)
    /\ \E k \in CacheKeys, e \in PutEntries :
          SetThread(t, Thread("put_index", k, e, nullopt, EmptyCache))
    /\ m_mutex' = [m_mutex EXCEPT !.writer = t]
    /\ UNCHANGED <<m_cache, written>>

PutIndex(t) ==
    /\ threads[t].pc = "put_index"
    /\ m_cache' = indexOrInsert(m_cache, threads[t].levelID)
    /\ SetThread(t, [threads[t] EXCEPT !.pc = "put_assign1"])
    /\ UNCHANGED <<m_mutex, written>>

PutAssign(t) ==
    /\ \E i \in 1..3 :
          /\ threads[t].pc = <<"put_assign1", "put_assign2", "put_assign3">>[i]
          /\ m_cache' = assignField(m_cache, threads[t].levelID, i, threads[t].entry)
          /\ SetThread(t, [threads[t] EXCEPT !.pc =
                <<"put_assign2", "put_assign3", "put_unlock">>[i]])
    /\ UNCHANGED <<m_mutex, written>>

PutUnlock(t) ==
    /\ threads[t].pc = "put_unlock"
    /\ m_mutex' = [m_mutex EXCEPT !.writer = NoThread]
    /\ written' =
          [map |-> [k \in DOMAIN written.map \cup {threads[t].levelID} |->
                      IF k = threads[t].levelID THEN threads[t].entry
                      ELSE written.map[k]],
           count |-> written.count + 1]
    /\ SetThread(t, IdleThread)
    /\ UNCHANGED m_cache

\* get(levelID), lines 79-83
GetLock(t) ==
    /\ threads[t].pc = "idle"
    /\ canLockShared(m_mutex)
    /\ \E k \in CacheKeys :
          SetThread(t, Thread("get_find", k, DefaultEntry, nullopt, EmptyCache))
    /\ m_mutex' = [m_mutex EXCEPT !.readers = @ \cup {t}]
    /\ UNCHANGED <<m_cache, written>>

GetFind(t) ==
    /\ threads[t].pc = "get_find"
    /\ SetThread(t, [threads[t] EXCEPT !.pc = "get_unlock",
                                       !.got = get(m_cache, threads[t].levelID)])
    /\ UNCHANGED <<m_cache, m_mutex, written>>

\* getAll(), lines 95-98
GetAllLock(t) ==
    /\ threads[t].pc = "idle"
    /\ canLockShared(m_mutex)
    /\ SetThread(t, Thread("getAll_copy", 0, DefaultEntry, nullopt, EmptyCache))
    /\ m_mutex' = [m_mutex EXCEPT !.readers = @ \cup {t}]
    /\ UNCHANGED <<m_cache, written>>

GetAllCopy(t) ==
    /\ threads[t].pc = "getAll_copy"
    /\ SetThread(t, [threads[t] EXCEPT !.pc = "getAll_unlock",
                                       !.all = getAll(m_cache)])
    /\ UNCHANGED <<m_cache, m_mutex, written>>

\* the shared_lock is released as get or getAll returns
ReadUnlock(t) ==
    /\ threads[t].pc \in {"get_unlock", "getAll_unlock"}
    /\ m_mutex' = [m_mutex EXCEPT !.readers = @ \ {t}]
    /\ SetThread(t, IdleThread)
    /\ UNCHANGED <<m_cache, written>>

CacheInit ==
    /\ ProgInit
    /\ LockIdle
    /\ CodecIdle
    /\ FetchIdle
    /\ SaveIdle

restOfCache == <<disk, layers, transfers, now, current, lastEvent, codecVars, fetchVars, saveVars>>

CacheNext ==
    \/ \E t \in ThreadIds : PutLock(t) /\ UNCHANGED restOfCache
    \/ \E t \in ThreadIds : PutIndex(t) /\ UNCHANGED restOfCache
    \/ \E t \in ThreadIds : PutAssign(t) /\ UNCHANGED restOfCache
    \/ \E t \in ThreadIds : PutUnlock(t) /\ UNCHANGED restOfCache
    \/ \E t \in ThreadIds : GetLock(t) /\ UNCHANGED restOfCache
    \/ \E t \in ThreadIds : GetFind(t) /\ UNCHANGED restOfCache
    \/ \E t \in ThreadIds : GetAllLock(t) /\ UNCHANGED restOfCache
    \/ \E t \in ThreadIds : GetAllCopy(t) /\ UNCHANGED restOfCache
    \/ \E t \in ThreadIds : ReadUnlock(t) /\ UNCHANGED restOfCache

SpecCache == CacheInit /\ [][CacheNext]_vars

\* C1: a get(k) that runs after put(k, e) returned, with no other put of k in
\* between, returns e, and never nullopt: also when e is a negative entry.
C1_GetReturnsLastPut ==
    \A t \in ThreadIds :
        (threads[t].pc = "get_unlock" /\ threads[t].levelID \in DOMAIN written.map)
            => threads[t].got = Some(written.map[threads[t].levelID])

\* C1 witness: a get has returned a negative entry that was put
C1_Witness ==
    \E t \in ThreadIds :
        /\ threads[t].pc = "get_unlock"
        /\ threads[t].levelID \in DOMAIN written.map
        /\ threads[t].got = Some(NegativeEntry)

\* C5: the map getAll returns holds exactly the keys put so far, each with the
\* entry last put under it, whatever readers run beside it; it never holds a
\* partly assigned entry.
C5_GetAllIsLastWritten ==
    \A t \in ThreadIds :
        threads[t].pc = "getAll_unlock" => threads[t].all = written.map

\* C5 witness: getAll returned two keys after three puts (so one key was put
\* twice) while another reader held the lock
C5_Witness ==
    \E t \in ThreadIds :
        /\ threads[t].pc = "getAll_unlock"
        /\ Cardinality(DOMAIN threads[t].all) = 2
        /\ written.count = MaxPuts
        /\ Cardinality(m_mutex.readers) >= 2

(***************************************************************************)
(* The disk codec on its own (specification SpecCodec).  Either a process  *)
(* holding an arbitrary snapshot saves it and ends, and the next process   *)
(* loads the file into its empty cache; or a process loads a file made of  *)
(* records as saveCacheToDisk writes them and one corrupt line.            *)
(***************************************************************************)
\* the latest fetchedAt, in ticks, of an arbitrary entry
MaxFetchedAt == 3
\* the characters of an arbitrary verifier name or video URL
CodecAlphabet == {"a", CACHE_ENTRY_SEPARATOR, LF}
\* the characters of a corrupt line
LineAlphabet == {"1", "a", "-", CACHE_ENTRY_SEPARATOR}

ArbitraryEntries ==
    {CacheEntry(v, u, time) : v \in StrsUpTo(CodecAlphabet, MaxStrLen),
                              u \in StrsUpTo(CodecAlphabet, MaxStrLen),
                              time \in 0..MaxFetchedAt}
\* a negative entry, and an entry fetched in the middle of a second
PlainEntries == {NegativeEntry, CacheEntry(NameA, Url1, TicksPerSecond + 1)}

\* the snapshots saved: any entry under key 1, a plain one or none under key 12
Snapshots ==
    {a @@ b : a \in {EmptyCache} \cup {(1 :> e) : e \in ArbitraryEntries},
              b \in {EmptyCache} \cup {(12 :> e) : e \in PlainEntries}}

\* the valid records of a corrupted file, and the orders they stand in
ValidRecords ==
    (1 :> CacheEntry(NameA, Url1, TimePoint(1))) @@ (12 :> CacheEntry(EmptyStr, EmptyStr, 0))
ValidOrders == {<<1>>, <<12>>, <<1, 12>>, <<12, 1>>}

\* a decimal number as operator<< writes it
IsDecimal(f) ==
    LET ds == IF f /= << >> /\ Head(f) = "-" THEN Tail(f) ELSE f
    IN  /\ ds /= << >>
        /\ \A i \in 1..Len(ds) : ds[i] \in Digits
        /\ (Len(ds) > 1 => ds[1] /= "0")

\* a line is a record as saveCacheToDisk writes one: id, epoch, verifier and
\* video, separated by three tabs
WellFormed(line) ==
    LET fields == SplitKeep(line, CACHE_ENTRY_SEPARATOR, << >>)
    IN  Len(fields) = 4 /\ IsDecimal(fields[1]) /\ IsDecimal(fields[2])

CorruptLines == {l \in StrsUpTo(LineAlphabet, MaxLineLen) : ~WellFormed(l)}

\* a field begins with a number: whitespace, an optional sign, then a digit
StartsWithNumber(f) ==
    \E i \in 1..Len(f) :
        /\ f[i] \in Digits
        /\ \A j \in 1..(i - 1) :
              \/ f[j] \in Whitespace /\ (j + 1 < i => f[j + 1] \notin {"+", "-"})
              \/ f[j] \in {"+", "-"} /\ j = i - 1

\* a corrupt line with fewer than four tab-separated fields, or whose id or
\* timestamp field does not begin with a number
Unparsable(line) ==
    LET fields == SplitKeep(line, CACHE_ENTRY_SEPARATOR, << >>)
    IN  \/ Len(fields) < 4
        \/ ~StartsWithNumber(fields[1])
        \/ ~StartsWithNumber(fields[2])

\* the file with records keys[1], keys[2], ... and the line bad after the
\* first p of them
RECURSIVE CorruptedFile(_, _, _)
CorruptedFile(keys, bad, p) ==
    IF p = 0 THEN bad \o <<LF>> \o WriteRecords(ValidRecords, keys)
    ELSE RecordLine(Head(keys), ValidRecords[Head(keys)])
            \o CorruptedFile(Tail(keys), bad, p - 1)

CodecInit ==
    /\ NoLayers
    /\ LockIdle
    /\ FetchIdle
    /\ SaveIdle
    /\ \/ /\ m_cache \in Snapshots
          /\ disk = NoFile
          /\ snapshot = EmptyCache
          /\ phase = "running"
          /\ corrupt = NoCorruption
       \/ \E keys \in ValidOrders, bad \in CorruptLines :
            \E p \in 0..Len(keys) :
                /\ m_cache = EmptyCache
                /\ disk = File(CorruptedFile(keys, bad, p))
                /\ snapshot = [k \in {keys[i] : i \in 1..Len(keys)} |-> ValidRecords[k]]
                /\ phase = "exited"
                /\ corrupt = [present |-> TRUE, line |-> bad, at |-> p]

\* saveCacheToDisk of the running process
CodecSave ==
    /\ phase = "running"
    /\ \E order \in Orders(DOMAIN m_cache) :
          disk' = saveCacheToDisk(m_cache, disk, order, TRUE)
    /\ snapshot' = m_cache
    /\ phase' = "saved"
    /\ UNCHANGED <<m_cache, corrupt>>

\* the process ends: the next one starts with an empty VerifierCache
CodecExit ==
    /\ phase = "saved"
    /\ m_cache' = EmptyCache
    /\ phase' = "exited"
    /\ UNCHANGED <<disk, snapshot, corrupt>>

\* loadCacheFromDisk of the next process
CodecLoad ==
    /\ phase = "exited"
    /\ m_cache' = loadCacheFromDisk(m_cache, disk)
    /\ phase' = "loaded"
    /\ UNCHANGED <<disk, snapshot, corrupt>>

restOfCodec == <<layers, transfers, now, current, lastEvent, lockVars, fetchVars, saveVars>>

CodecNext ==
    \/ CodecSave /\ UNCHANGED restOfCodec
    \/ CodecExit /\ UNCHANGED restOfCodec
    \/ CodecLoad /\ UNCHANGED restOfCodec

SpecCodec == CodecInit /\ [][CodecNext]_vars

\* two caches hold the same keys with the same verifier text, video URL and
\* fetchedAt in whole seconds
SameToTheSecond(a, b) ==
    /\ DOMAIN a = DOMAIN b
    /\ \A k \in DOMAIN a :
          /\ a[k].verifierName = b[k].verifierName
          /\ a[k].videoUrl = b[k].videoUrl
          /\ EpochSeconds(a[k].fetchedAt) = EpochSeconds(b[k].fetchedAt)

\* no verifier text or video URL of the cache holds a tab or a line feed
NoSeparators(cache) ==
    \A k \in DOMAIN cache :
        \A str \in {cache[k].verifierName, cache[k].videoUrl} :
            \A i \in 1..Len(str) : str[i] \notin {CACHE_ENTRY_SEPARATOR, LF}

Reloaded == phase = "loaded" /\ ~corrupt.present

\* C6 (as claimed): every snapshot, saved and loaded into an empty cache, is
\* reproduced: same keys, verifier text, video URL and fetchedAt in seconds.
C6_RoundTripEverySnapshot ==
    Reloaded => SameToTheSecond(m_cache, snapshot)

\* C6 (amended): every snapshot whose verifier texts and video URLs hold no
\* tab and no line feed, saved and loaded into an empty cache, is reproduced;
\* entries whose verifier text and video URL are both empty included.
C6_RoundTripWithoutSeparators ==
    (Reloaded /\ NoSeparators(snapshot)) => SameToTheSecond(m_cache, snapshot)

\* C6 witness: a snapshot of two entries, one of them negative, one fetched
\* in the middle of a second, came back from the file
C6_Witness ==
    /\ Reloaded
    /\ NoSeparators(snapshot)
    /\ Cardinality(DOMAIN snapshot) = 2
    /\ \E k \in DOMAIN snapshot :
          snapshot[k].verifierName = EmptyStr /\ snapshot[k].videoUrl = EmptyStr
    /\ \E k \in DOMAIN snapshot : snapshot[k].fetchedAt % TicksPerSecond /= 0
    /\ SameToTheSecond(m_cache, snapshot)
    /\ m_cache /= snapshot

LoadedCorrupted == phase = "loaded" /\ corrupt.present

\* C7 (as claimed): a file of N valid records and one malformed record (any
\* line that is not a record as saveCacheToDisk writes it), at any position,
\* loads as exactly the N valid entries.
C7_AnyMalformedLineSkipped ==
    LoadedCorrupted => m_cache = snapshot

\* the part of C7 that holds: a file of N valid records and one line with
\* fewer than four tab-separated fields, or whose id or timestamp field does
\* not begin with a number, at any position, loads as exactly the N valid
\* entries.
UnparsableLineSkipped ==
    (LoadedCorrupted /\ Unparsable(corrupt.line)) => m_cache = snapshot

\* a line of four fields without a number for an id stood between two valid
\* records, and both were loaded
UnparsableLineSkippedWitness ==
    /\ LoadedCorrupted
    /\ Unparsable(corrupt.line)
    /\ Len(SplitKeep(corrupt.line, CACHE_ENTRY_SEPARATOR, << >>)) >= 4
    /\ corrupt.at = 1
    /\ Cardinality(DOMAIN snapshot) = 2
    /\ m_cache = snapshot

(***************************************************************************)
(* Properties of the fetch protocol (specification Spec).                  *)
(***************************************************************************)
Placeholder == <<Label(<<". . .">>, TRUE)>>

\* the last step was the callback of a request that took the given path
Responded(ev, path) == ev.op = "response" /\ ev.path = path

\* C2 (as claimed): after the callback of a request that failed (404 or
\* another HTTP or transport failure) the cache holds a negative entry for the
\* level (empty verifier, empty video URL, fetchedAt = now), the file holds
\* it too, and a lookup of the level returns an entry, not nullopt.
C2_NegativeEntryStored ==
    Responded(lastEvent, "httpError") =>
        /\ get(m_cache, lastEvent.levelID) = Some(CacheEntry(EmptyStr, EmptyStr, now))
        /\ contains(loadCacheFromDisk(EmptyCache, disk), lastEvent.levelID)

StaleResponse(ev, onScreen, ls) ==
    /\ Responded(ev, "ok")
    /\ onScreen /= NoLayer
    /\ onScreen /= ev.layer
    /\ ls[onScreen].m_level.m_levelID /= ev.levelID

StoredUnder(cache, levelID, time) ==
    /\ get(cache, levelID) /= nullopt
    /\ get(cache, levelID)[1].fetchedAt = time

C8_ParseErrorChangesNothing ==
    [][Responded(lastEvent', "parseError") =>
          /\ m_cache' = m_cache
          /\ disk' = disk
          /\ layers' = layers]_vars

\* the part of C8 that holds: the cache and the file are left as they were
ParseErrorKeepsCacheAndFile ==
    [][Responded(lastEvent', "parseError") => m_cache' = m_cache /\ disk' = disk]_vars

C10_OnlyEligibleFetched ==
    \A t \in transfers :
        layers[t.layer].m_level.m_demonDifficulty >= ExtremeDemon

\* C10 witness: init met a level below the threshold that the cache does not
\* hold, and issued nothing for it
C10_Witness ==
    /\ lastEvent.op = "init" /\ lastEvent.path = "notEligible"
    /\ ~contains(m_cache, lastEvent.levelID)
    /\ layers[lastEvent.layer].m_level.m_demonDifficulty < ExtremeDemon
    /\ \A t \in transfers : t.layer /= lastEvent.layer

(***************************************************************************)
(* The callback on a successful response, body by body (specification      *)
(* SpecFetch).  A layer showing level 1, an Extreme Demon the cache does   *)
(* not hold, has issued its request; no cache file exists yet.  The body   *)
(* on its way is any of FetchBodies; the settings of the mod hold the      *)
(* switch the handlers never read.                                         *)
(***************************************************************************)
\* the verification records a body lists, at most
MaxRecords == 3
Url2 == <<"v">>
\* video_url of a record: missing, empty, or one of two URLs
FetchUrls == {NotThere, JString(EmptyStr), JString(Url1), JString(Url2)}
\* submitted_by of a record: missing, or a user carrying one of the fields
\* global_name, name, username
FetchUsers ==
    { NotThere,
      User(JString(NameA), NotThere, NotThere),
      User(JString(NameB), NotThere, NotThere),
      User(NotThere, JString(NameA), NotThere),
      User(NotThere, NotThere, JString(NameB)) }
FetchRecords == {Verification(u, by) : u \in FetchUrls, by \in FetchUsers}
RecordLists == UNION {[1..n -> FetchRecords] : n \in 0..MaxRecords}
\* verifications: missing, not an array, or an array of records
FetchBodies ==
    {LevelData(NotThere), LevelData(JTrue)}
        \cup {LevelData(JArray(l)) : l \in RecordLists}

FetchedLevel == GJGameLevel(1, ExtremeDemon)

\* the state init leaves on its fetch path for FetchedLevel (lines 249-270)
FetchInit ==
    /\ m_cache = EmptyCache
    /\ disk = NoFile
    /\ layers = [L \in LayerIds |->
          IF L = "L1"
          THEN createUIElements(
                   [NewLayer(TRUE, FetchedLevel) EXCEPT !.m_cacheInitialized = TRUE],
                   TRUE)
          ELSE NewLayer(FALSE, NoLevel)]
    /\ transfers = spawn({}, "L1", FetchedLevel.m_levelID)
    /\ now = 0
    /\ current = "L1"
    /\ lastEvent = Event("init", "L1", FetchedLevel.m_levelID, "fetch")
    /\ LockIdle
    /\ CodecIdle
    /\ SaveIdle
    /\ response \in FetchBodies
    /\ settings \in {Settings(d) : d \in BOOLEAN}

\* the request completes with the body on its way
FetchDeliver ==
    /\ \E t \in transfers : ResponseOkWith(t, response)
    /\ UNCHANGED <<lockVars, codecVars, fetchVars, saveVars>>

FetchNext == FetchDeliver

SpecFetch == FetchInit /\ [][FetchNext]_vars

\* the callback has stored the entry of the fetched level
Delivered ==
    /\ lastEvent.op = "response" /\ lastEvent.path = "ok"
    /\ lastEvent.levelID = FetchedLevel.m_levelID

\* the array of verification records of a body, empty when there is none
RecordsOf(levelData) == AsArrayOr(levelData.verifications, << >>)

\* C11: with caching disabled in the settings, a fetch neither creates nor
\* modifies the cache file, and the entry it stored is returned by lookup.
C11_DisabledCachingWritesNoFile ==
    (Delivered /\ settings.disable_cache) =>
        /\ disk = NoFile
        /\ get(m_cache, FetchedLevel.m_levelID) /= nullopt

\* the entry the callback stored for the fetched level
StoredEntry == m_cache[FetchedLevel.m_levelID]

\* the submitter name of a record as the specification resolves it: the
\* global name, otherwise the username, otherwise "Unknown"
ClaimedName(record) ==
    LET user == record.submitted_by
    IN  IF user.type /= "object" THEN <<"U", "n", "k", "n", "o", "w", "n">>
        ELSE AsStringOr(user.val.global_name,
                 AsStringOr(user.val.username, <<"U", "n", "k", "n", "o", "w", "n">>))

ClaimedNames(levelData) ==
    [i \in 1..Len(RecordsOf(levelData)) |-> ClaimedName(RecordsOf(levelData)[i])]

\* the distinct elements of a sequence in first-seen order
RECURSIVE DistinctInOrder(_, _)
DistinctInOrder(seq, seen) ==
    IF seq = << >> THEN << >>
    ELSE IF Head(seq) \in seen THEN DistinctInOrder(Tail(seq), seen)
    ELSE <<Head(seq)>> \o DistinctInOrder(Tail(seq), seen \cup {Head(seq)})

\* how many times name occurs in text
Occurrences(name, text) ==
    Cardinality({i \in 1..(Len(text) - Len(name) + 1) :
                    SubSeq(text, i, i + Len(name) - 1) = name})

IsPrefix(p, text) == Len(p) <= Len(text) /\ SubSeq(text, 1, Len(p)) = p

\* C12: when the records name one distinct submitter the stored verifier text
\* is that name; when they name two or more it is "<first> & <second>", from
\* the first two distinct names in first-seen order.
C12_FirstTwoDistinctNames ==
    Delivered =>
        LET names == DistinctInOrder(ClaimedNames(response), {})
        IN  /\ Len(names) = 1 => StoredEntry.verifierName = names[1]
            /\ Len(names) >= 2 =>
                  StoredEntry.verifierName = names[1] \o <<" ", "&", " ">> \o names[2]

\* C13: a submitter the records name more than once is in the stored verifier
\* text exactly once.
C13_RepeatedNameOnce ==
    Delivered =>
        LET names == ClaimedNames(response)
        IN  \A i, j \in 1..Len(names) :
                (i < j /\ names[i] = names[j]) =>
                    Occurrences(names[i], StoredEntry.verifierName) = 1

C19_FirstNonEmptyUrl ==
    Delivered =>
        LET urls == [i \in 1..Len(RecordsOf(response)) |->
                        AsStringOr(RecordsOf(response)[i].video_url, EmptyStr)]
            filled == {i \in 1..Len(urls) : urls[i] /= EmptyStr}
        IN  IF filled = {} THEN StoredEntry.videoUrl = EmptyStr
            ELSE StoredEntry.videoUrl =
                     urls[CHOOSE i \in filled : \A j \in filled : i <= j]

\* C20: the name of a record is its global name if that is a string,
\* otherwise its username if that is a string, otherwise "Unknown"; the stored
\* verifier text starts with the name of the first record.
C20_GlobalNameThenUsername ==
    (Delivered /\ RecordsOf(response) /= << >>) =>
        IsPrefix(ClaimedName(RecordsOf(response)[1]), StoredEntry.verifierName)

(***************************************************************************)
(* saveCacheToDisk step by step (specification SpecSave).  Two layers have *)
(* each issued a request; each completion runs the callback: updateUI and  *)
(* put (lines 374-379), then saveCacheToDisk (line 380), whose steps are   *)
(* the open with trunc (line 145), getAll under the shared lock (line 150) *)
(* and one write per entry (lines 151-155); the stream closes on return.   *)
(* The callbacks are run by the main thread, one at a time.                *)
(***************************************************************************)
SaveInit ==
    /\ m_cache = EmptyCache
    /\ disk = NoFile
    /\ \E k1, k2 \in CacheKeys :
         LET level == [L \in LayerIds |->
                 GJGameLevel(IF L = "L1" THEN k1 ELSE k2, ExtremeDemon)]
         IN  /\ layers = [L \in LayerIds |->
                   createUIElements(
                       [NewLayer(TRUE, level[L]) EXCEPT !.m_cacheInitialized = TRUE],
                       TRUE)]
             /\ transfers = spawn(spawn({}, "L1", k1), "L2", k2)
             /\ lastEvent = Event("init", "L2", k2, "fetch")
    /\ now = 0
    /\ current = "L2"
    /\ callbacks = [L \in LayerIds |-> Callback("pending", EmptyCache, << >>)]
    /\ LockIdle
    /\ CodecIdle
    /\ FetchIdle

\* the main thread runs the callback of L only when it is inside no other
mainThreadFreeMutantAnyThread(cbs, L) ==
    TRUE

mainThreadFree(cbs, L) ==
    \A K \in LayerIds \ {L} : cbs[K].pc \in {"none", "pending", "done"}

SetCallback(L, cb) == callbacks' = [callbacks EXCEPT ![L] = cb]

\* lines 353-379: updateUI and put
SaveDeliver(L) ==
    /\ callbacks[L].pc = "pending"
    /\ mainThreadFree(callbacks, L)
    /\ canLockUnique(m_mutex)
    /\ \E t \in transfers, levelData \in Bodies, showYoutube \in BOOLEAN :
         LET found == ExtractVerifier(levelData)
         IN  /\ t.layer = L
             /\ transfers' = transfers \ {t}
             /\ layers' = [layers EXCEPT ![callbackLayer(t, current)] =
                     updateUI(@, found.verifierName, found.videoUrl, showYoutube)]
             /\ m_cache' = put(m_cache, t.levelID,
                               CacheEntry(found.verifierName, found.videoUrl, now))
             /\ lastEvent' = Event("response", t.layer, t.levelID, "ok")
    /\ SetCallback(L, [callbacks[L] EXCEPT !.pc = "save_open"])
    /\ UNCHANGED <<disk, now, current, m_mutex>>

\* line 145: std::ofstream out(cachePath, std::ios::trunc); a stream that does
\* not open throws, and saveCacheToDisk returns
SaveOpen(L) ==
    /\ callbacks[L].pc = "save_open"
    /\ \E canOpen \in BOOLEAN :
         IF canOpen
         THEN /\ disk' = File(<< >>)
              /\ SetCallback(L, [callbacks[L] EXCEPT !.pc = "save_lock"])
         ELSE /\ disk' = disk
              /\ SetCallback(L, [callbacks[L] EXCEPT !.pc = "done"])
    /\ UNCHANGED <<m_cache, layers, transfers, now, current, lastEvent, m_mutex>>

\* line 150, getAll (lines 95-98): the shared lock, the copy, the release
SaveLock(L) ==
    /\ callbacks[L].pc = "save_lock"
    /\ canLockShared(m_mutex)
    /\ m_mutex' = [m_mutex EXCEPT !.readers = @ \cup {L}]
    /\ SetCallback(L, [callbacks[L] EXCEPT !.pc = "save_copy"])
    /\ UNCHANGED <<m_cache, disk, layers, transfers, now, current, lastEvent>>

SaveCopy(L) ==
    /\ callbacks[L].pc = "save_copy"
    /\ SetCallback(L, [callbacks[L] EXCEPT !.pc = "save_unlock",
                                           !.cache = getAll(m_cache)])
    /\ UNCHANGED <<m_cache, disk, layers, transfers, now, current, lastEvent, m_mutex>>

SaveUnlock(L) ==
    /\ callbacks[L].pc = "save_unlock"
    /\ m_mutex' = [m_mutex EXCEPT !.readers = @ \ {L}]
    /\ \E order \in Orders(DOMAIN callbacks[L].cache) :
         SetCallback(L, [callbacks[L] EXCEPT !.pc = "save_write", !.left = order])
    /\ UNCHANGED <<m_cache, disk, layers, transfers, now, current, lastEvent>>

\* lines 151-155: one record of the snapshot
SaveWrite(L) ==
    /\ callbacks[L].pc = "save_write"
    /\ callbacks[L].left /= << >>
    /\ disk' = File(disk.bytes \o
                    RecordLine(Head(callbacks[L].left),
                               callbacks[L].cache[Head(callbacks[L].left)]))
    /\ SetCallback(L, [callbacks[L] EXCEPT !.left = Tail(@)])
    /\ UNCHANGED <<m_cache, layers, transfers, now, current, lastEvent, m_mutex>>

\* line 159: saveCacheToDisk returns, the stream is closed
SaveClose(L) ==
    /\ callbacks[L].pc = "save_write"
    /\ callbacks[L].left = << >>
    /\ SetCallback(L, [callbacks[L] EXCEPT !.pc = "done"])
    /\ UNCHANGED <<m_cache, disk, layers, transfers, now, current, lastEvent, m_mutex>>

restOfSave == <<threads, written, codecVars, fetchVars>>

SaveNext ==
    \/ \E L \in LayerIds : SaveDeliver(L) /\ UNCHANGED restOfSave
    \/ \E L \in LayerIds : SaveOpen(L) /\ UNCHANGED restOfSave
    \/ \E L \in LayerIds : SaveLock(L) /\ UNCHANGED restOfSave
    \/ \E L \in LayerIds : SaveCopy(L) /\ UNCHANGED restOfSave
    \/ \E L \in LayerIds : SaveUnlock(L) /\ UNCHANGED restOfSave
    \/ \E L \in LayerIds : SaveWrite(L) /\ UNCHANGED restOfSave
    \/ \E L \in LayerIds : SaveClose(L) /\ UNCHANGED restOfSave

SpecSave == SaveInit /\ [][SaveNext]_vars

\* the callback of L holds the cache file open
FileOpen(L) ==
    callbacks[L].pc \in {"save_lock", "save_copy", "save_unlock", "save_write"}

\* the callback of L has taken its snapshot
SnapshotTaken(L) == callbacks[L].pc \in {"save_unlock", "save_write", "done"}

\* no two saves have the file open at once
SavesDoNotOverlap == Cardinality({L \in LayerIds : FileOpen(L)}) <= 1

\* the cache lock is held by a save only while it copies the snapshot
LockOnlyForCopy ==
    /\ m_mutex.writer = NoThread
    /\ \A L \in m_mutex.readers : callbacks[L].pc \in {"save_copy", "save_unlock"}

\* with no save under way, a file on disk is the whole snapshot one save took
WholeSnapshotOnDisk ==
    ((\A L \in LayerIds : ~FileOpen(L)) /\ disk.exists) =>
        \E L \in LayerIds :
            /\ callbacks[L].pc = "done"
            /\ callbacks[L].cache /= EmptyCache
            /\ \E order \in Orders(DOMAIN callbacks[L].cache) :
                   disk.bytes = WriteRecords(callbacks[L].cache, order)

RevisitInit ==
    /\ m_cache = EmptyCache
    /\ disk \in {NoFile, File(RecordLine(2, NegativeEntry))}
    /\ NoLayers
    /\ LockIdle
    /\ CodecIdle
    /\ FetchIdle
    /\ SaveIdle

SpecRevisit == RevisitInit /\ [][Next]_vars

\* C15: a request is issued only for a level the cache holds no entry of; when
\* the lookup of init finds an entry, also one with an empty verifier text,
\* the layer displays it and issues no request.
C15_RequestOnlyWhenUncached ==
    [][/\ \A t \in transfers' \ transfers : ~contains(m_cache', t.levelID)
       /\ (/\ lastEvent'.op = "init" /\ lastEvent'.path /= "hidden"
           /\ lastEvent'.levelID > 0
           /\ contains(m_cache', lastEvent'.levelID)) =>
              LET L == lastEvent'.layer
                  entry == m_cache'[lastEvent'.levelID]
              IN  /\ transfers' = transfers
                  /\ layers'[L].m_label =
                        <<Label(<<"Verified by: ">> \o entry.verifierName, TRUE)>>
                  /\ layers'[L].m_videoUrl = entry.videoUrl]_vars

\* C15 witness: init found the entry with the empty verifier text for an
\* Extreme Demon, displayed it and issued no request
C15_Witness ==
    /\ lastEvent.op = "init" /\ lastEvent.path = "cacheHit"
    /\ m_cache[lastEvent.levelID].verifierName = EmptyStr
    /\ layers[lastEvent.layer].m_level.m_demonDifficulty = ExtremeDemon
    /\ layers[lastEvent.layer].m_label = <<Label(<<"Verified by: ">>, TRUE)>>
    /\ \A t \in transfers : t.layer /= lastEvent.layer

\* C16: the cache file is loaded at most once per process: an init that runs
\* when another layer of this process has already loaded it does not read the
\* file again, so it leaves the cache store as it is.
C16_LoadedOncePerProcess ==
    [][(/\ lastEvent'.op = "init"
        /\ \E K \in LayerIds \ {lastEvent'.layer} : layers[K].m_cacheInitialized)
           => m_cache' = m_cache]_vars

(***************************************************************************)
(* The program with every request in flight eventually completing          *)
(* (specification SpecLive): the web request of a transfer ends, with a    *)
(* response or an error, and its callback is run, unless the handle        *)
(* cancels it first.                                                       *)
(***************************************************************************)
\* every request a layer may have in flight
AllTransfers == [layer : LayerIds, levelID : {level.m_levelID : level \in Levels}]

\* the callback of transfer t runs (lines 331-388)
Deliver(t) ==
    /\ t \in transfers
    /\ \/ ResponseHttpError(t)
       \/ ResponseParseError(t)
       \/ ResponseOk(t)
    /\ UNCHANGED <<lockVars, codecVars, fetchVars, saveVars>>

SpecLive ==
    Init /\ [][Next]_vars /\ \A t \in AllTransfers : WF_vars(Deliver(t))

\* the m_webTask of layer L holds a request in flight
Pending(L) == \E t \in transfers : t.layer = L

\* C17: every request that enters Pending leaves it: the slot that holds it
\* becomes idle again, by the callback having run or the request having been
\* cancelled; no slot stays Pending forever.
C17_PendingLeadsToIdle ==
    \A L \in LayerIds : Pending(L) ~> ~Pending(L)

\* C17 witness: the request of a layer was answered and its slot is idle,
\* while the other layer's request is still in flight
C17_Witness ==
    /\ lastEvent.op = "response"
    /\ ~Pending(lastEvent.layer)
    /\ layers[lastEvent.layer].exists
    /\ \E K \in LayerIds : Pending(K)

====
